---- MODULE Spec2Model ----
(***************************************************************************)
(* Model of generate_test_audio.py: the signal generators, the quantizer   *)
(* save_wav and the driver main().                                          *)
(*                                                                         *)
(* Three specifications share the module:                                  *)
(*   Spec       the driver main(), run (and rerun) against an output       *)
(*              directory; buffers are carried as descriptors because a    *)
(*              catalog buffer holds 220500 samples;                       *)
(*   SpecGen    the five generators as pure functions on bounded inputs,   *)
(*              with every sample computed in fixed point;                 *)
(*   SpecQuant  the quantization line of save_wav on bounded samples.      *)
(***************************************************************************)
EXTENDS Integers, Sequences, FiniteSets, TLC

VARIABLES
    \* ---- driver (Spec) ----
    pc,         \* position in main(): "ensure", "gen", "save", "done", "failed"
    idx,        \* index of the current catalog entry, 1..Len(Catalog)
    dirState,   \* what OUTPUT_DIR is on disk: "absent", "dir" or "file"
    files,      \* filename -> content of that file in OUTPUT_DIR
    wave,       \* the buffer of the current loop iteration
    trace,      \* events of the current run, in order
    err,        \* the exception that left main(), or "none"
    rng,        \* numpy's global random state: <<seed, draws consumed>>
    run,        \* number of the current process run
    firstDone,  \* files as the first complete run left them, or <<>>
    \* ---- generators (SpecGen) ----
    gPc, gRate, gDur, gFreqs, gAmps, gSeed, gOut,
    \* ---- quantizer (SpecQuant) ----
    qPc, qIn, qOut

driverVars == <<pc, idx, dirState, files, wave, trace, err, rng, run, firstDone>>
genVars    == <<gPc, gRate, gDur, gFreqs, gAmps, gSeed, gOut>>
quantVars  == <<qPc, qIn, qOut>>
vars       == <<driverVars, genVars, quantVars>>

(***************************************************************************)
(* Units.  Durations are counted in 1/DurDen seconds, amplitudes in        *)
(* 1/AmpDen, samples in 1/One.                                             *)
(***************************************************************************)
DurDen == 4
AmpDen == 10 * 10
SinOne == 10 * 10
One    == AmpDen * SinOne

\* ---- bounds of the model ----
MaxRuns  == 2
MaxSeed  == 2

Seeds == 1..MaxSeed

(***************************************************************************)
(* Module constants of the program.                                        *)
(***************************************************************************)
SAMPLE_RATE == 44100
DURATION    == 5 * DurDen

\* Mutant: the product rounded to the nearest integer instead of truncated.
NumSamplesRounded(sample_rate, duration) ==
    (2 * sample_rate * duration + DurDen) \div (2 * DurDen)

\* int(sample_rate * duration): the product truncated toward zero.
NumSamples(sample_rate, duration) == (sample_rate * duration) \div DurDen

(***************************************************************************)
(* The catalog of main(), in declaration order: the five lists and the     *)
(* inline silence entry.  Amplitudes are in 1/AmpDen.                      *)
(***************************************************************************)
\* Mutant: the filename column is dropped and every entry gets one name.
EntryOneName(k, f, a, name) ==
    [kind |-> k, freqs |-> f, amps |-> a, filename |-> "out.wav"]

Entry(k, f, a, name) == [kind |-> k, freqs |-> f, amps |-> a, filename |-> name]

Catalog ==
    << Entry("tone", <<50>>,   <<50>>, "50hz_pure_tone.wav"),
       Entry("tone", <<100>>,  <<50>>, "100hz_pure_tone.wav"),
       Entry("tone", <<200>>,  <<50>>, "200hz_pure_tone.wav"),
       Entry("tone", <<440>>,  <<50>>, "440hz_pure_tone.wav"),
       Entry("tone", <<1000>>, <<50>>, "1000hz_pure_tone.wav"),
       Entry("tone", <<5000>>, <<50>>, "5000hz_pure_tone.wav"),
       Entry("noise", <<50>>,  <<30>>, "lowpass_50hz_noise.wav"),
       Entry("noise", <<100>>, <<30>>, "lowpass_100hz_noise.wav"),
       Entry("noise", <<200>>, <<30>>, "lowpass_200hz_noise.wav"),
       Entry("noise", <<500>>, <<30>>, "lowpass_500hz_noise.wav"),
       Entry("multi", <<100, 200, 300>>, <<30, 20, 10>>,
             "multi_tone_100_200_300hz.wav"),
       Entry("multi", <<50, 100, 500, 1000>>, <<25, 25, 15, 10>>,
             "multi_tone_50_100_500_1000hz.wav"),
       Entry("multi", <<440, 880, 1320>>, <<30, 20, 15>>,
             "multi_tone_harmonic_440hz.wav"),
       Entry("sweep", <<20, 200>>,     <<50>>, "sweep_20_to_200hz.wav"),
       Entry("sweep", <<100, 5000>>,   <<50>>, "sweep_100_to_5000hz.wav"),
       Entry("sweep", <<5000, 20000>>, <<50>>, "sweep_5k_to_20khz.wav"),
       Entry("silence", <<>>, <<>>, "silence.wav"),
       Entry("tone", <<20>>, <<50>>, "20hz_pure_tone.wav"),
       Entry("tone", <<30>>, <<50>>, "30hz_pure_tone.wav"),
       Entry("tone", <<40>>, <<50>>, "40hz_pure_tone.wav"),
       Entry("tone", <<60>>, <<50>>, "60hz_pure_tone.wav"),
       Entry("tone", <<80>>, <<50>>, "80hz_pure_tone.wav"),
       Entry("tone", <<90>>, <<50>>, "90hz_pure_tone.wav") >>

CatalogNames == { Catalog[i].filename : i \in 1..Len(Catalog) }

(***************************************************************************)
(* Files of OUTPUT_DIR.  A write that fails may leave nothing or a         *)
(* truncated file behind.                                                  *)
(***************************************************************************)
Absent  == [state |-> "absent"]
Partial == [state |-> "partial"]
NoWave  == [kind |-> "none"]
NoFiles == [f \in CatalogNames |-> Absent]

(***************************************************************************)
(* The buffer a generator call of main() returns, as a descriptor: what    *)
(* was generated, its length, and for noise the random draws it consumed.  *)
(* Only generate_lowpass_noise reads the random state.                     *)
(***************************************************************************)
Buffer(e, sample_rate, duration, draws) ==
    [kind |-> e.kind, freqs |-> e.freqs, amps |-> e.amps, rate |-> sample_rate,
     n |-> NumSamples(sample_rate, duration), noise |-> draws]

\* Mutant: every generator draws from the random state.
GenerateEntryRandom(e, r) == Buffer(e, SAMPLE_RATE, DURATION, r)

GenerateEntry(e, r) ==
    IF e.kind = "noise"
    THEN Buffer(e, SAMPLE_RATE, DURATION, r)
    ELSE Buffer(e, SAMPLE_RATE, DURATION, <<>>)

\* The random state after generate_lowpass_noise drew n samples from it.
Advance(r, e) ==
    IF e.kind = "noise"
    THEN <<r[1], r[2] + NumSamples(SAMPLE_RATE, DURATION)>>
    ELSE r

(***************************************************************************)
(* wavfile.write(filepath, sample_rate, data_int16) for the one-           *)
(* dimensional int16 array save_wav passes: one channel, 16 bits, one      *)
(* stored sample per element of data.                                      *)
(***************************************************************************)
\* Mutant: rate and data handed to the writer in the wrong roles.
WavFileSwapped(data, sample_rate) ==
    [state |-> "complete", rate |-> data.n, channels |-> 1, bits |-> 16,
     nsamples |-> sample_rate, data |-> data]

WavFile(data, sample_rate) ==
    [state |-> "complete", rate |-> sample_rate, channels |-> 1, bits |-> 16,
     nsamples |-> data.n, data |-> data]

\* Mutant: the loops stop one entry short.
AfterSaveShort(i) == IF i < Len(Catalog) - 1 THEN "gen" ELSE "done"

\* Where the for loops of main() go after the entry at index i is saved.
AfterSave(i) == IF i < Len(Catalog) THEN "gen" ELSE "done"

\* Mutant: the loops skip every other entry.
NextIndexSkip(i) == i + 2

\* The entry the for loops take after the entry at index i.
NextIndex(i) == i + 1

\* Mutant: the exception is swallowed and the loop body runs again.
OnExceptionRetry == "gen"

\* No try/except anywhere: an exception leaves main() and ends the process.
OnException == "failed"

(***************************************************************************)
(* Driver: Init and the steps of main().                                   *)
(***************************************************************************)
GenIdle   == /\ gPc = "off" /\ gRate = 0 /\ gDur = 0 /\ gFreqs = <<>>
             /\ gAmps = <<>> /\ gSeed = 0 /\ gOut = <<>>
QuantIdle == /\ qPc = "off" /\ qIn = 0 /\ qOut = 0

Init ==
    /\ pc = "ensure"
    /\ idx = 1
    /\ dirState \in {"absent", "dir", "file"}
    /\ files = NoFiles
    /\ wave = NoWave
    /\ trace = <<>>
    /\ err = "none"
    /\ rng \in { <<s, 0>> : s \in Seeds }
    /\ run = 1
    /\ firstDone = <<>>
    /\ GenIdle
    /\ QuantIdle

\* ensure_output_dir(), lines 26-30.  os.path.exists is true of a directory
\* and of any other file at that path; os.makedirs may raise.
EnsureOutputDir ==
    /\ pc = "ensure"
    /\ \/ /\ dirState # "absent"
          /\ pc' = "gen"
          /\ UNCHANGED <<dirState, err>>
       \/ /\ dirState = "absent"
          /\ dirState' = "dir"
          /\ pc' = "gen"
          /\ UNCHANGED err
       \/ /\ dirState = "absent"
          /\ pc' = OnException
          /\ err' = "makedirs"
          /\ UNCHANGED dirState
    /\ UNCHANGED <<idx, files, wave, trace, rng, run, firstDone>>
    /\ UNCHANGED <<genVars, quantVars>>

\* The generator call of the current loop iteration (lines 107, 120, 132,
\* 144, 149, 164).  It returns a fresh buffer or raises.
Generate ==
    /\ pc = "gen"
    /\ trace' = Append(trace, <<"gen", idx, Catalog[idx].filename>>)
    /\ \/ /\ wave' = GenerateEntry(Catalog[idx], rng)
          /\ rng' = Advance(rng, Catalog[idx])
          /\ pc' = "save"
          /\ UNCHANGED err
       \/ /\ pc' = OnException
          /\ err' = "generate"
          /\ UNCHANGED <<wave, rng>>
    /\ UNCHANGED <<idx, dirState, files, run, firstDone>>
    /\ UNCHANGED <<genVars, quantVars>>

\* save_wav(filename, wave, SAMPLE_RATE), lines 78-84, and the loop step.
SaveWav ==
    /\ pc = "save"
    /\ LET fn == Catalog[idx].filename IN
       \/ /\ dirState = "dir"
          /\ files' = [files EXCEPT ![fn] = WavFile(wave, SAMPLE_RATE)]
          /\ trace' = Append(trace, <<"write", idx, fn>>)
          /\ pc' = AfterSave(idx)
          /\ idx' = IF AfterSave(idx) = "gen" THEN NextIndex(idx) ELSE idx
          /\ firstDone' = IF AfterSave(idx) = "done" /\ firstDone = <<>>
                          THEN files' ELSE firstDone
          /\ UNCHANGED err
       \/ /\ pc' = OnException
          /\ err' = "write"
          /\ \/ files' = files
             \/ /\ dirState = "dir"
                /\ files' = [files EXCEPT ![fn] = Partial]
          /\ UNCHANGED <<idx, trace, firstDone>>
    /\ wave' = NoWave
    /\ UNCHANGED <<dirState, rng, run>>
    /\ UNCHANGED <<genVars, quantVars>>

\* The script is started again on the directory the last run left.
Rerun ==
    /\ pc \in {"done", "failed"}
    /\ run < MaxRuns
    /\ run' = run + 1
    /\ pc' = "ensure"
    /\ idx' = 1
    /\ wave' = NoWave
    /\ trace' = <<>>
    /\ err' = "none"
    /\ rng' \in { <<s, 0>> : s \in Seeds }
    /\ UNCHANGED <<dirState, files, firstDone>>
    /\ UNCHANGED <<genVars, quantVars>>

Next == EnsureOutputDir \/ Generate \/ SaveWav \/ Rerun

Spec == Init /\ [][Next]_vars

(***************************************************************************)
(* Properties of the driver (Spec).                                        *)
(***************************************************************************)
WriteEvents  == SelectSeq(trace, LAMBDA e : e[1] = "write")
WrittenNames == { WriteEvents[k][3] : k \in 1..Len(WriteEvents) }
WritesOf(fn) == Cardinality({ k \in 1..Len(trace) :
                                 trace[k][1] = "write" /\ trace[k][3] = fn })
IsComplete(f) == f.state = "complete"

\* C1 (as claimed): a run of main() that meets no failure writes exactly 22
\* files, one per catalog entry, and the set of files written is exactly
\* the set of catalog filenames.
C1_CompleteRunWrites22 ==
    pc = "done" =>
        /\ err = "none"
        /\ Len(WriteEvents) = 22
        /\ Cardinality(WrittenNames) = 22
        /\ WrittenNames = CatalogNames
        /\ \A fn \in CatalogNames : IsComplete(files[fn])

\* C1 (amended): a run of main() that meets no failure writes exactly 23
\* files, one per catalog entry (6 + 4 + 3 + 3 + 1 + 6), and the set of
\* files written is exactly the set of catalog filenames.
C1_CompleteRunWritesCatalog ==
    pc = "done" =>
        /\ err = "none"
        /\ Len(Catalog) = 23
        /\ Len(WriteEvents) = 23
        /\ Cardinality(WrittenNames) = 23
        /\ WrittenNames = CatalogNames
        /\ \A fn \in CatalogNames : IsComplete(files[fn])

C1_Witness == pc = "done" /\ err = "none" /\ Len(WriteEvents) = Len(Catalog)

\* C2: entries are processed strictly one at a time in catalog declaration
\* order: the events of a run are always a prefix of gen 1, write 1, gen 2,
\* write 2, ..., so entry i is generated and written before the generation
\* of any later entry begins, and the order is the same in every run.
C2_SequentialCatalogOrder ==
    \A k \in 1..Len(trace) :
        LET i == (k + 1) \div 2 IN
        /\ i \in 1..Len(Catalog)
        /\ trace[k] = <<IF k % 2 = 1 THEN "gen" ELSE "write", i,
                        Catalog[i].filename>>

C2_Witness ==
    /\ Len(trace) >= 5
    /\ trace[4] = <<"write", 2, "100hz_pure_tone.wav">>
    /\ trace[5] = <<"gen", 3, "200hz_pure_tone.wav">>

\* C3: fail-fast.  A failing generation or write ends the run at that entry
\* with the failure surfaced; the files of the other entries stay as they
\* are; and from a failed run nothing more is generated or written and
\* nothing is retried (the only step left is a new start of the script).
C3_FailFast ==
    [][ /\ (err' # "none") => (pc' = "failed")
        /\ (pc # "failed" /\ pc' = "failed") =>
              /\ err' \in {"makedirs", "generate", "write"}
              /\ idx' = idx
              /\ \A fn \in CatalogNames \ {Catalog[idx].filename} :
                     files'[fn] = files[fn]
              /\ WriteEvents' = WriteEvents
        /\ (pc = "failed") =>
              /\ files' = files
              /\ trace' = <<>>
              /\ run' = run + 1 ]_vars

C3_Witness ==
    /\ pc = "failed"
    /\ err = "write"
    /\ idx = 3
    /\ IsComplete(files[Catalog[1].filename])
    /\ IsComplete(files[Catalog[2].filename])
    /\ ~IsComplete(files[Catalog[4].filename])

\* C4 (as claimed): whenever the output directory cannot be made available,
\* ensure_output_dir fails, and no buffer is generated and no file written.
C4_DirFailureAbortsBeforeGeneration ==
    (dirState # "dir" /\ pc # "ensure") =>
        /\ err = "makedirs"
        /\ trace = <<>>
        /\ wave = NoWave
        /\ files = NoFiles

\* C5: files are write-once within a run: the catalog filenames are
\* pairwise distinct, no file is written twice in a run, and in a run that
\* started on an empty directory the files present are exactly those
\* written once by their catalog entry.
NamesPairwiseDistinct ==
    \A i, j \in 1..Len(Catalog) :
        i # j => Catalog[i].filename # Catalog[j].filename

C5_WriteOnce ==
    /\ NamesPairwiseDistinct
    /\ \A fn \in CatalogNames : WritesOf(fn) <= 1
    /\ run = 1 => \A fn \in CatalogNames :
                      IsComplete(files[fn]) <=> WritesOf(fn) = 1

C5_Witness ==
    /\ run = 1
    /\ pc = "done"
    /\ \A fn \in CatalogNames : IsComplete(files[fn]) /\ WritesOf(fn) = 1

\* C6: determinism across runs: once a complete run exists, whatever a
\* later run writes to a file other than the low-pass-noise files has the
\* same content as in that run.
IsNoiseFile(fn) ==
    \E i \in 1..Len(Catalog) : Catalog[i].filename = fn /\ Catalog[i].kind = "noise"

C6_DeterministicExceptNoise ==
    firstDone # <<>> =>
        \A fn \in CatalogNames :
            (~IsNoiseFile(fn) /\ IsComplete(files[fn])) =>
                files[fn] = firstDone[fn]

C6_Witness ==
    /\ firstDone # <<>>
    /\ run = 2
    /\ pc = "done"
    /\ \A fn \in CatalogNames :
           IF IsNoiseFile(fn) THEN files[fn] # firstDone[fn]
                              ELSE files[fn] = firstDone[fn]

\* C7: every file a run has written records sample rate 44100, one channel
\* and 16-bit samples, and holds exactly 220500 samples, the length of the
\* buffer passed to save_wav.
C7_HeaderAndLength ==
    \A fn \in CatalogNames :
        IsComplete(files[fn]) =>
            /\ files[fn].rate = 44100
            /\ files[fn].channels = 1
            /\ files[fn].bits = 16
            /\ files[fn].nsamples = 220500
            /\ files[fn].nsamples = files[fn].data.n

C7_Witness == pc = "done" /\ \A fn \in CatalogNames : IsComplete(files[fn])

(***************************************************************************)
(* The generators as pure functions, in fixed point.                       *)
(*   frequencies: integers (Hz); sample_rate: integer; duration: integer   *)
(*   count of 1/DurDen s; amplitudes: 1/AmpDen; samples: 1/One.            *)
(***************************************************************************)
Abs(x) == IF x >= 0 THEN x ELSE -x

\* Integer quotient rounded toward zero (b > 0).
TruncDiv(a, b) == IF a >= 0 THEN a \div b ELSE -((-a) \div b)

MaxAbs(w) == IF Len(w) = 0 THEN 0
             ELSE CHOOSE m \in { Abs(w[i]) : i \in 1..Len(w) } :
                      \A i \in 1..Len(w) : Abs(w[i]) <= m

\* np.sin(2 * np.pi * a / b) in 1/SinOne, for integers a and b > 0.  The
\* angle is reduced to a turn and taken in 1/PhaseRes of a turn; the sine is
\* the rational approximation 16h(1-h) / (5 - 4h(1-h)) of sin(pi h) on
\* [0, 1], exact at 0, 1/12, 1/4, 5/12 and 1/2 of a turn.
PhaseRes == 12 * 100

SinTurn(a, b) ==
    LET g == ((a % b) * PhaseRes) \div b
        h == IF 2 * g <= PhaseRes THEN 2 * g ELSE 2 * g - PhaseRes
        v == (SinOne * 16 * h * (PhaseRes - h))
                 \div (5 * PhaseRes * PhaseRes - 4 * h * (PhaseRes - h))
    IN  IF 2 * g <= PhaseRes THEN v ELSE -v

\* t = np.linspace(0, duration, n, False): t[i] = i * duration / n seconds,
\* so frequency * t[i] is TurnNum / TurnDen turns.
TurnNum(frequency, i, duration) == frequency * i * duration
TurnDen(n) == DurDen * n

\* generate_sine_wave(frequency, sample_rate, duration, amplitude)
generate_sine_wave(frequency, sample_rate, duration, amplitude) ==
    LET n == NumSamples(sample_rate, duration) IN
    [k \in 1..n |->
        amplitude * SinTurn(TurnNum(frequency, k - 1, duration), TurnDen(n))]

\* generate_sweep(start_freq, end_freq, sample_rate, duration, amplitude):
\* phase / 2 pi = start * t + (end - start) * t^2 / (2 * duration).
generate_sweep(start_freq, end_freq, sample_rate, duration, amplitude) ==
    LET n == NumSamples(sample_rate, duration) IN
    [k \in 1..n |->
        LET i == k - 1 IN
        amplitude * SinTurn(2 * start_freq * i * duration * n
                              + (end_freq - start_freq) * i * i * duration,
                            2 * DurDen * n * n)]

\* zip(frequencies, amplitudes) stops at the shorter list.
ZipLen(frequencies, amplitudes) ==
    IF Len(frequencies) <= Len(amplitudes) THEN Len(frequencies)
                                           ELSE Len(amplitudes)

RECURSIVE ToneSum(_, _, _, _, _, _)
ToneSum(frequencies, amplitudes, j, i, duration, n) ==
    IF j = 0 THEN 0
    ELSE ToneSum(frequencies, amplitudes, j - 1, i, duration, n)
         + amplitudes[j] * SinTurn(TurnNum(frequencies[j], i, duration), TurnDen(n))

\* The loop of generate_multi_tone: wave += amp * np.sin(2 pi freq t).
MultiSum(frequencies, amplitudes, sample_rate, duration) ==
    LET n == NumSamples(sample_rate, duration) IN
    [k \in 1..n |->
        ToneSum(frequencies, amplitudes, ZipLen(frequencies, amplitudes),
                k - 1, duration, n)]

\* 0.9 in 1/One.
PeakTarget == (9 * One) \div 10

\* Mutant: normalization starts at a peak of exactly 1.0.
NeedsNormalizeAtOne(max_val) == max_val >= One

\* if max_val > 1.0
NeedsNormalize(max_val) == max_val > One

\* wave / max_val * 0.9
Normalize(w, max_val) == [k \in 1..Len(w) |-> TruncDiv(w[k] * PeakTarget, max_val)]

\* generate_multi_tone(frequencies, amplitudes, sample_rate, duration)
generate_multi_tone(frequencies, amplitudes, sample_rate, duration) ==
    LET w       == MultiSum(frequencies, amplitudes, sample_rate, duration)
        max_val == MaxAbs(w)
    IN  IF NeedsNormalize(max_val) THEN Normalize(w, max_val) ELSE w

\* np.max of an empty array raises ValueError.
MultiToneRaises(sample_rate, duration) == NumSamples(sample_rate, duration) = 0

\* signal.butter(4, ...) and the default padlen of signal.filtfilt,
\* 3 * max(len(a), len(b)) with len(a) = len(b) = order + 1.
ButterOrder == 4
PadLen == 3 * (ButterOrder + 1)

\* signal.butter raises unless 0 < cutoff / nyquist < 1; signal.filtfilt
\* raises unless the input is longer than padlen.
LowpassRaises(cutoff_freq, sample_rate, duration) ==
    \/ ~(0 < 2 * cutoff_freq /\ 2 * cutoff_freq < sample_rate)
    \/ NumSamples(sample_rate, duration) <= PadLen

\* generate_lowpass_noise(cutoff_freq, sample_rate, duration, amplitude).
\* The n Gaussian draws are a function of the random state, and
\* filtfilt(b, a, noise) is left uninterpreted: sample i of the result is
\* the term naming the filter, the noise it was applied to and i.
generate_lowpass_noise(cutoff_freq, sample_rate, duration, amplitude, seed) ==
    LET n == NumSamples(sample_rate, duration) IN
    [k \in 1..n |->
        [filtfilt |-> <<ButterOrder, 2 * cutoff_freq, sample_rate>>,
         noise |-> <<seed, amplitude, n>>, at |-> k - 1]]

\* np.zeros(int(SAMPLE_RATE * DURATION)), line 149
generate_silence(sample_rate, duration) ==
    [k \in 1..NumSamples(sample_rate, duration) |-> 0]

(***************************************************************************)
(* SpecGen: one generator call on inputs drawn from bounded sets.          *)
(***************************************************************************)
MaxRate == 12
MaxDur  == 8

FreqLists == { <<1>>, <<2>>, <<3>>, <<1, 3>>, <<2, 2>>, <<1, 2, 3>> }
AmpLists  == { <<50>>, <<100>>, <<150>>, <<50, 50>>, <<100, 50>>, <<30, 20, 10>> }

DriverIdle ==
    /\ pc = "off" /\ idx = 0 /\ dirState = "absent" /\ files = <<>>
    /\ wave = NoWave /\ trace = <<>> /\ err = "none" /\ rng = <<>>
    /\ run = 0 /\ firstDone = <<>>

Returned(buf) == [raised |-> FALSE, buf |-> buf]
Raised        == [raised |-> TRUE, buf |-> <<>>]

InitGen ==
    /\ gPc = "ready"
    /\ gRate \in 1..MaxRate
    /\ gDur \in 0..MaxDur
    /\ gFreqs \in FreqLists
    /\ gAmps \in AmpLists
    /\ gSeed = 0
    /\ gOut = Raised
    /\ DriverIdle
    /\ QuantIdle

CallSine ==
    /\ gPc = "ready"
    /\ gPc' = "sine"
    /\ gOut' = Returned(generate_sine_wave(gFreqs[1], gRate, gDur, gAmps[1]))
    /\ UNCHANGED <<gRate, gDur, gFreqs, gAmps, gSeed>>
    /\ UNCHANGED <<driverVars, quantVars>>

CallLowpassNoise ==
    /\ gPc = "ready"
    /\ gPc' = "noise"
    /\ \E s \in Seeds :
          /\ gSeed' = s
          /\ gOut' = IF LowpassRaises(gFreqs[1], gRate, gDur) THEN Raised
                     ELSE Returned(generate_lowpass_noise(gFreqs[1], gRate, gDur,
                                                          gAmps[1], s))
    /\ UNCHANGED <<gRate, gDur, gFreqs, gAmps>>
    /\ UNCHANGED <<driverVars, quantVars>>

CallMultiTone ==
    /\ gPc = "ready"
    /\ gPc' = "multi"
    /\ gOut' = IF MultiToneRaises(gRate, gDur) THEN Raised
               ELSE Returned(generate_multi_tone(gFreqs, gAmps, gRate, gDur))
    /\ UNCHANGED <<gRate, gDur, gFreqs, gAmps, gSeed>>
    /\ UNCHANGED <<driverVars, quantVars>>

CallSweep ==
    /\ gPc = "ready"
    /\ gPc' = "sweep"
    /\ gOut' = Returned(generate_sweep(gFreqs[1], gFreqs[Len(gFreqs)], gRate, gDur,
                                       gAmps[1]))
    /\ UNCHANGED <<gRate, gDur, gFreqs, gAmps, gSeed>>
    /\ UNCHANGED <<driverVars, quantVars>>

CallSilence ==
    /\ gPc = "ready"
    /\ gPc' = "silence"
    /\ gOut' = Returned(generate_silence(gRate, gDur))
    /\ UNCHANGED <<gRate, gDur, gFreqs, gAmps, gSeed>>
    /\ UNCHANGED <<driverVars, quantVars>>

NextGen == CallSine \/ CallLowpassNoise \/ CallMultiTone \/ CallSweep \/ CallSilence

SpecGen == InitGen /\ [][NextGen]_vars

(***************************************************************************)
(* Properties of the generators (SpecGen).                                 *)
(***************************************************************************)
GenReturned == gPc \in {"sine", "noise", "multi", "sweep", "silence"} /\ ~gOut.raised

\* C8 (as claimed): every generator returns a buffer whose length is
\* round(sample_rate * duration), also when the product is not an integer:
\* the length is within 1/2 of the product.
C8_LengthIsRounded ==
    GenReturned =>
        Abs(2 * DurDen * Len(gOut.buf) - 2 * gRate * gDur) <= DurDen

\* C8 (amended): every generator that returns, returns a buffer whose
\* length is int(sample_rate * duration), the product truncated toward
\* zero: length <= product < length + 1.  It is round(product) when the
\* product is an integer.
C8_LengthIsTruncated ==
    GenReturned =>
        /\ DurDen * Len(gOut.buf) <= gRate * gDur
        /\ gRate * gDur < DurDen * (Len(gOut.buf) + 1)

C8_Witness ==
    /\ gPc = "sweep"
    /\ ~gOut.raised
    /\ 2 * ((gRate * gDur) % DurDen) > DurDen
    /\ Len(gOut.buf) >= 2

\* C9: generate_multi_tone: if the peak absolute value of the unscaled sum
\* exceeds 1.0 the whole buffer is scaled by the one factor 0.9 / peak, so
\* its peak absolute value is exactly 0.9; if the peak is at most 1.0
\* (exactly 1.0 included) the output is the unscaled sum unchanged.
C9_MultiToneNormalization ==
    (gPc = "multi" /\ ~gOut.raised) =>
        LET sum  == MultiSum(gFreqs, gAmps, gRate, gDur)
            peak == MaxAbs(sum)
            out  == gOut.buf
        IN  /\ Len(out) = Len(sum)
            /\ peak > One =>
                  /\ MaxAbs(out) = PeakTarget
                  /\ \A k \in 1..Len(out) :
                         Abs(out[k] * peak - sum[k] * PeakTarget) < peak
            /\ peak <= One => out = sum

C9_Witness ==
    /\ gPc = "multi"
    /\ ~gOut.raised
    /\ MaxAbs(MultiSum(gFreqs, gAmps, gRate, gDur)) > One
    /\ MaxAbs(gOut.buf) = PeakTarget
    /\ gOut.buf # MultiSum(gFreqs, gAmps, gRate, gDur)

\* The boundary case of C9: a peak of exactly 1.0 is left unscaled.
C9_BoundaryCase ==
    /\ gPc = "multi"
    /\ ~gOut.raised
    /\ MaxAbs(gOut.buf) = One

(***************************************************************************)
(* The quantization line of save_wav:                                      *)
(*     data_int16 = (data * 32767).astype(np.int16)                        *)
(* on one float32 sample.  A sample is the integer count qIn of 1/QDen;    *)
(* QDen is a power of two, so every input is a float32.                    *)
(***************************************************************************)
QDen     == 2 ^ 15
QStep    == 2 ^ 11
Int16Max == 2 ^ 15 - 1
Int16Min == -(2 ^ 15)

\* ---- bounds of the inputs ----
MaxSteps == 31
Near     == 3

QuantInputs ==
    { k * QStep : k \in -MaxSteps..MaxSteps }
        \cup { d + j : d \in {-QDen, QDen}, j \in -Near..Near }

\* The float32 nearest to p / QDen (24 significant bits, ties to even), as
\* a count of 1/QDen.
RoundFloat32(p) ==
    IF p = 0 THEN 0
    ELSE LET m == Abs(p)
             e == CHOOSE x \in 0..30 : m \div (2 ^ x) = 1
         IN  IF e <= 23 THEN p
             ELSE LET q  == 2 ^ (e - 23)
                      lo == (m \div q) * q
                      r  == m - lo
                      up == IF 2 * r > q \/ (2 * r = q /\ (m \div q) % 2 = 1)
                            THEN lo + q ELSE lo
                  IN  IF p > 0 THEN up ELSE -up

\* Mutant: scaling by 32768 instead of 32767.
ScaledFull(sample) == RoundFloat32(sample * 32768)

\* data * 32767: a float32 product.
Scaled(sample) == RoundFloat32(sample * 32767)

\* The integer part of a float, toward zero.
Truncated(p) == TruncDiv(p, QDen)

Wrap16(t) == ((t - Int16Min) % (2 ^ 16)) + Int16Min
Sat16(t)  == IF t > Int16Max THEN Int16Max ELSE IF t < Int16Min THEN Int16Min ELSE t

\* .astype(np.int16) of a float whose integer part is t.  In range the
\* result is t.  Out of range the conversion is undefined: the usual build
\* converts to a wider integer and keeps the low 16 bits, a saturating
\* conversion clamps.
AsInt16(t) ==
    IF Int16Min <= t /\ t <= Int16Max THEN {t} ELSE {Wrap16(t), Sat16(t)}

InitQuant ==
    /\ qPc = "ready"
    /\ qIn \in QuantInputs
    /\ qOut = 0
    /\ DriverIdle
    /\ GenIdle

Quantize ==
    /\ qPc = "ready"
    /\ qPc' = "done"
    /\ qOut' \in AsInt16(Truncated(Scaled(qIn)))
    /\ UNCHANGED qIn
    /\ UNCHANGED <<driverVars, genVars>>

NextQuant == Quantize

SpecQuant == InitQuant /\ [][NextQuant]_vars

(***************************************************************************)
(* Properties of the quantizer (SpecQuant).                                *)
(***************************************************************************)
\* The product sample * 32767 truncated toward zero, for the inputs of the
\* model, whose product is exact up to float32 rounding.
TruncatedProduct(sample) == TruncDiv(RoundFloat32(sample * 32767), QDen)

C10_InRangeCase ==
    /\ qPc = "done"
    /\ qIn < 0
    /\ Abs(qIn) < QDen
    /\ qOut * QDen > qIn * 32767

====
